---- MODULE Spec2Model ----
(***************************************************************************)
(* A model of the comment-aware parts of src/src/compiler/scanner.ts of    *)
(* Buildless TypeScript: the delimiter classifier commentScan, the cursor  *)
(* createTSCommentScanner, the range tracker createTSSyntaxTracker, and    *)
(* the comment handling of skipTrivia and of createScanner's scan().       *)
(*                                                                         *)
(* A text is a sequence of one-character strings.  The characters the      *)
(* model knows are those of Alphabet; the branches of the source that need *)
(* another character (digits, quotes, "=", ...) are not modelled.          *)
(***************************************************************************)
EXTENDS Integers, Sequences, FiniteSets, TLC

VARIABLES
    text,                   \* the source text handed to every component
    component,              \* which component this run drives
    \* commentScan
    lastScan,               \* the last direct call of commentScan and its outcome
    \* createTSCommentScanner
    cursors,                \* the cursors created so far (the original, then clones)
    maps,                   \* the delimiter maps allocated so far
    ret,                    \* the last call on a cursor and what it returned
    \* createTSSyntaxTracker
    tsSyntaxRanges,
    whitespaceSyntaxRanges,
    yielded,                \* what the last getSyntaxRanges() yielded
    \* createScanner
    pos,
    fullStartPos,
    tokenStart,
    token,
    tokenFlags,
    errors,                 \* the diagnostics passed to the error callback
    tokens,                 \* the tokens scan() has returned, with their starts
    trivia                  \* the last skipTrivia / couldStartTrivia call

vars == <<text, component, lastScan, cursors, maps, ret,
          tsSyntaxRanges, whitespaceSyntaxRanges, yielded,
          pos, fullStartPos, tokenStart, token, tokenFlags, errors, tokens, trivia>>

cursorVars == <<cursors, maps, ret>>
trackerVars == <<tsSyntaxRanges, whitespaceSyntaxRanges, yielded>>
scannerVars == <<pos, fullStartPos, tokenStart, token, tokenFlags, errors, tokens, trivia>>

-----------------------------------------------------------------------------
(* Bounds *)

MaxCursors == 2         \* the original cursor and its clones
MaxRanges == 2          \* ranges recorded in each array of the tracker
MaxRawLen == 3          \* length of the texts enumerated character by character
MaxSegments == 2        \* comments and code pieces in a text built from whole pieces
MaxBodyLen == 3         \* length of the body X of a marker comment
MaxScanLen == 4         \* length of the texts commentScan is called on directly
MaxTailLen == 5         \* length of the text behind a double-marker opener
MaxScanToLen == 5       \* length of the texts crossed with scanTo alone
MaxLeafLen == 4         \* length of the texts crossed with scanThroughLeafNode alone

-----------------------------------------------------------------------------
(* Characters *)

Letters == {"a", "b", "e", "m", "n", "r", "u", "x", "y"}

Alphabet == {"/", "*", ":", " ", "\n", "#", "!", "@"} \cup Letters

\* text.charCodeAt(i): NaN, here "", outside the text
CharAt(t, i) == IF i >= 0 /\ i < Len(t) THEN t[i + 1] ELSE ""

isLineBreak(ch) == ch \in {"\n", "\r"}

isWhiteSpaceSingleLine(ch) == ch \in {" ", "\t"}

isIdentifierStart(ch) == ch \in Letters

isIdentifierPart(ch) == ch \in Letters

Min(a, b) == IF a < b THEN a ELSE b

Max(a, b) == IF a < b THEN b ELSE a

\* the first offset at or after p, below lim, whose character satisfies none of
\* the stop conditions of the loop: here "is a space"
RECURSIVE skipSpaces(_, _, _)
skipSpaces(t, p, lim) ==
    IF p < lim /\ CharAt(t, p) = " " THEN skipSpaces(t, p + 1, lim) ELSE p

\* the first offset at or after p, below lim, that holds a line break; else Max(p, lim)
RECURSIVE skipToLineBreak(_, _, _)
skipToLineBreak(t, p, lim) ==
    IF p < lim /\ ~isLineBreak(CharAt(t, p)) THEN skipToLineBreak(t, p + 1, lim) ELSE p

\* the first offset at or after p, below lim, where "*/" starts; -1 when there is none
RECURSIVE findClose(_, _, _)
findClose(t, p, lim) ==
    IF p >= lim THEN -1
    ELSE IF CharAt(t, p) = "*" /\ CharAt(t, p + 1) = "/" THEN p
    ELSE findClose(t, p + 1, lim)

\* a count that never looks past the first colon
colonCountAlwaysOne(t, p) == 1

colonCountAt(t, p) ==
    IF CharAt(t, p + 1) # ":" THEN 1
    ELSE IF CharAt(t, p + 2) # ":" THEN 2
    ELSE 3

isShebangTrivia(t) == CharAt(t, 0) = "#" /\ CharAt(t, 1) = "!"

\* pos + the length of the match of /^#!.*/: "." matches no line terminator
scanShebangTrivia(t, p) == skipToLineBreak(t, p + 2, Len(t))

-----------------------------------------------------------------------------
(* BlockCommentDelimiterType and commentScan *)

openNonTsComment == "openNonTsComment"
openTsCommentWithoutColons == "openTsCommentWithoutColons"
singleColonForOpenTsComment == "singleColonForOpenTsComment"
doubleColonForOpenTsComment == "doubleColonForOpenTsComment"
close == "close"

Ev(at, type) == [at |-> at, type |-> type]

scanResult(p, evs, threw) == [pos |-> p, events |-> evs, threw |-> threw]

\* a "/*" branch that takes any run of colons for a marker
blockCommentOpenAnyColons(t, p, end) ==
    LET q == skipSpaces(t, p + 2, end) IN
    IF q < end /\ CharAt(t, q) = ":"
    THEN [pos |-> q + colonCountAt(t, q),
          events |-> <<Ev(p, openTsCommentWithoutColons),
                       Ev(q, IF colonCountAt(t, q) = 1 THEN singleColonForOpenTsComment
                                                       ELSE doubleColonForOpenTsComment)>>]
    ELSE [pos |-> q, events |-> <<Ev(p, openNonTsComment)>>]

\* the "/*" branch of commentScan at p: the offset to go on from and the events reported
blockCommentOpen(t, p, end) ==
    LET q == skipSpaces(t, p + 2, end)
        isTsComment == q < end /\ CharAt(t, q) = ":"
        colonCount == colonCountAt(t, q)
    IN  IF isTsComment /\ colonCount \in {1, 2}
        THEN [pos |-> q + colonCount,
              events |-> <<Ev(p, openTsCommentWithoutColons),
                           Ev(q, IF colonCount = 1 THEN singleColonForOpenTsComment
                                                   ELSE doubleColonForOpenTsComment)>>]
        ELSE LET body == IF isTsComment THEN q + 3 ELSE q
                 c == findClose(t, body, end)
             IN  IF c >= 0
                 THEN [pos |-> c + 2,
                       events |-> <<Ev(p, openNonTsComment), Ev(c, close)>>]
                 ELSE [pos |-> Max(body, end),
                       events |-> <<Ev(p, openNonTsComment)>>]

RECURSIVE commentScanFrom(_, _, _, _, _)
commentScanFrom(t, p, end, stopOnSignificantText, evs) ==
    LET ch == CharAt(t, p) IN
    IF p >= end THEN scanResult(p, evs, FALSE)
    ELSE IF p = 0 /\ ch = "#" /\ isShebangTrivia(t)
    THEN LET q == scanShebangTrivia(t, p) IN
         \* Debug.assertLessThan(pos, end)
         IF q < end THEN commentScanFrom(t, q, end, stopOnSignificantText, evs)
         ELSE scanResult(q, evs, TRUE)
    ELSE IF isLineBreak(ch) \/ isWhiteSpaceSingleLine(ch)
    THEN commentScanFrom(t, p + 1, end, stopOnSignificantText, evs)
    ELSE IF ch = "*"
    THEN IF CharAt(t, p + 1) = "/"
         THEN commentScanFrom(t, p + 2, end, stopOnSignificantText,
                              Append(evs, Ev(p, close)))
         ELSE commentScanFrom(t, p + 1, end, stopOnSignificantText, evs)
    ELSE IF ch = "/"
    THEN IF CharAt(t, p + 1) = "/"
         THEN commentScanFrom(t, skipToLineBreak(t, p + 2, end), end,
                              stopOnSignificantText, evs)
         ELSE IF CharAt(t, p + 1) = "*"
         THEN LET b == blockCommentOpen(t, p, end) IN
              commentScanFrom(t, b.pos, end, stopOnSignificantText, evs \o b.events)
         ELSE commentScanFrom(t, p + 1, end, stopOnSignificantText, evs)
    ELSE IF stopOnSignificantText THEN scanResult(p, evs, FALSE)
    ELSE commentScanFrom(t, p + 1, end, stopOnSignificantText, evs)

commentScan(t, start, end, stopOnSignificantText) ==
    commentScanFrom(t, start, end, stopOnSignificantText, <<>>)

\* one pass of commentScan's `while (true)` with pos = p: whether it returns or raises,
\* the pos it leaves, and the delimiters it reports
passOf(returns, p, evs, threw) == [returns |-> returns, pos |-> p, events |-> evs, threw |-> threw]

\* a pass that leaves pos on a "*" that closes nothing
commentScanPassStuckOnStar(t, p, end, stopOnSignificantText) ==
    LET ch == CharAt(t, p) IN
    IF p >= end THEN passOf(TRUE, p, <<>>, FALSE)
    ELSE IF ch = "*" /\ CharAt(t, p + 1) # "/" THEN passOf(FALSE, p, <<>>, FALSE)
    ELSE passOf(stopOnSignificantText, p + 1, <<>>, FALSE)

commentScanPass(t, p, end, stopOnSignificantText) ==
    LET ch == CharAt(t, p) IN
    IF p >= end THEN passOf(TRUE, p, <<>>, FALSE)
    ELSE IF p = 0 /\ ch = "#" /\ isShebangTrivia(t)
    THEN \* Debug.assertLessThan(pos, end)
         passOf(~(scanShebangTrivia(t, p) < end), scanShebangTrivia(t, p), <<>>,
                ~(scanShebangTrivia(t, p) < end))
    ELSE IF isLineBreak(ch) \/ isWhiteSpaceSingleLine(ch)
    THEN passOf(FALSE, p + 1, <<>>, FALSE)
    ELSE IF ch = "*"
    THEN IF CharAt(t, p + 1) = "/"
         THEN passOf(FALSE, p + 2, <<Ev(p, close)>>, FALSE)
         ELSE passOf(FALSE, p + 1, <<>>, FALSE)
    ELSE IF ch = "/"
    THEN IF CharAt(t, p + 1) = "/"
         THEN passOf(FALSE, skipToLineBreak(t, p + 2, end), <<>>, FALSE)
         ELSE IF CharAt(t, p + 1) = "*"
         THEN passOf(FALSE, blockCommentOpen(t, p, end).pos,
                     blockCommentOpen(t, p, end).events, FALSE)
         ELSE passOf(FALSE, p + 1, <<>>, FALSE)
    ELSE IF stopOnSignificantText THEN passOf(TRUE, p, <<>>, FALSE)
    ELSE passOf(FALSE, p + 1, <<>>, FALSE)

\* commentScan run pass by pass, for at most `passes` passes: what it returns, or
\* running |-> TRUE when the loop has not left by then
RECURSIVE commentScanPasses(_, _, _, _, _, _)
commentScanPasses(t, p, end, stopOnSignificantText, evs, passes) ==
    LET next(pass) ==
            IF pass.returns
            THEN scanResult(pass.pos, evs \o pass.events, pass.threw) @@ [running |-> FALSE]
            ELSE IF passes = 1
            THEN scanResult(pass.pos, evs \o pass.events, FALSE) @@ [running |-> TRUE]
            ELSE commentScanPasses(t, pass.pos, end, stopOnSignificantText,
                                   evs \o pass.events, passes - 1)
    IN  next(commentScanPass(t, p, end, stopOnSignificantText))

NoScan == [called |-> FALSE, start |-> 0, end |-> 0, stopOnSignificantText |-> FALSE,
           pos |-> 0, events |-> <<>>, threw |-> FALSE]

\* commentScan(text, start, end, stopOnSignificantText, onCommentDelimiter) called once
\* on the text, with a callback that lists the delimiters
callCommentScan(start, end, stopOnSignificantText) ==
    /\ component = "commentScan"
    /\ ~lastScan.called
    /\ lastScan' = [called |-> TRUE, start |-> start, end |-> end,
                    stopOnSignificantText |-> stopOnSignificantText]
                       @@ commentScan(text, start, end, stopOnSignificantText)
    /\ UNCHANGED <<text, component, cursors, maps, ret,
                   tsSyntaxRanges, whitespaceSyntaxRanges, yielded,
                   pos, fullStartPos, tokenStart, token, tokenFlags, errors, tokens, trivia>>

-----------------------------------------------------------------------------
(* createTSCommentScanner *)

notInComment == "notInComment"
inBlockComment == "inBlockComment"
inTSBlockComment == "inTSBlockComment"

EmptyMap == [o \in {} |-> close]

\* delimiterPositions.set(at, type)
mapSet(m, at, type) == [o \in DOMAIN m \cup {at} |-> IF o = at THEN type ELSE m[o]]

\* a callback for which only a marker comment is left by a closing delimiter
onCommentDelimiterClosesMarkerOnly(sm, at, commentDelimiterType) ==
    [map |-> mapSet(sm.map, at, commentDelimiterType),
     state |-> IF commentDelimiterType = close /\ sm.state = inTSBlockComment THEN notInComment
               ELSE IF commentDelimiterType = openTsCommentWithoutColons THEN inTSBlockComment
               ELSE IF commentDelimiterType = openNonTsComment THEN inBlockComment
               ELSE sm.state]

\* one call of the cursor's callback on the pair (state, delimiterPositions)
onCommentDelimiter(sm, at, commentDelimiterType) ==
    [map |-> mapSet(sm.map, at, commentDelimiterType),
     state |-> IF commentDelimiterType = close THEN notInComment
               ELSE IF commentDelimiterType = openTsCommentWithoutColons THEN inTSBlockComment
               ELSE IF commentDelimiterType = openNonTsComment THEN inBlockComment
               ELSE sm.state]

RECURSIVE applyEvents(_, _)
applyEvents(sm, evs) ==
    IF evs = <<>> THEN sm
    ELSE applyEvents(onCommentDelimiter(sm, Head(evs).at, Head(evs).type), Tail(evs))

\* commentScan(text, start, end, stop, onCommentDelimiter) run by a cursor whose
\* state and map are sm: the callback's effects and the value returned
cursorScan(sm, t, start, end, stop) ==
    LET withCallback(r) ==
            applyEvents(sm, r.events)
                @@ [stoppedAt |-> r.pos, threw |-> r.threw, delimiters |-> Len(r.events)]
    IN  withCallback(commentScan(t, start, end, stop))

SM(c) == [state |-> c.state, map |-> maps[c.map]]

\* the cursor and the map it writes, after a call that left (state, map) as sm and pos as p
Commit(i, sm, p) ==
    /\ cursors' = [cursors EXCEPT ![i].pos = p, ![i].state = sm.state]
    /\ maps' = [maps EXCEPT ![cursors[i].map] = sm.map]

\* args: the offsets the call was given (node.pos and node.end, end, or max);
\* again: the call before it was the same call on the same cursor
Returned(op, i, args, ok, bool, spans) ==
    ret' = [op |-> op, cur |-> i, args |-> args,
            again |-> ret.op = op /\ ret.cur = i /\ ret.args = args,
            ok |-> ok, bool |-> bool, spans |-> spans]

getCurrentPos(i) == cursors[i].pos

getBlockCommentDelimiters(i) == maps[cursors[i].map]

\* the sorted list of the map's offsets at or above lo
RECURSIVE sortedFrom(_, _)
sortedFrom(S, acc) ==
    IF S = {} THEN acc
    ELSE LET lo == CHOOSE x \in S : \A y \in S : x <= y
         IN  sortedFrom(S \ {lo}, Append(acc, lo))

\* a span that starts with its flag set
freshPositionFlagged == [open |-> -1, colonPos |-> -1, colonCount |-> 0, close |-> -1,
                         containedInnerOpeningBlockComment |-> TRUE]

freshPosition == [open |-> -1, colonPos |-> -1, colonCount |-> 0, close |-> -1,
                  containedInnerOpeningBlockComment |-> FALSE]

\* the loop of getTSCommentPositions over the sorted delimiters ds of map m
RECURSIVE pairDelimiters(_, _, _, _, _)
pairDelimiters(m, ds, tsCommentPosition, inTSComment, result) ==
    IF ds = <<>> THEN result
    ELSE LET at == Head(ds)
             type == m[at]
             rest == Tail(ds)
         IN  IF ~inTSComment /\ type = openTsCommentWithoutColons
             THEN pairDelimiters(m, rest, [tsCommentPosition EXCEPT !.open = at], TRUE, result)
             ELSE IF inTSComment /\ type = singleColonForOpenTsComment
             THEN pairDelimiters(m, rest,
                      [tsCommentPosition EXCEPT !.colonPos = at, !.colonCount = 1],
                      inTSComment, result)
             ELSE IF inTSComment /\ type = doubleColonForOpenTsComment
             THEN pairDelimiters(m, rest,
                      [tsCommentPosition EXCEPT !.colonPos = at, !.colonCount = 2],
                      inTSComment, result)
             ELSE IF inTSComment /\ type = openNonTsComment
             THEN pairDelimiters(m, rest,
                      [tsCommentPosition EXCEPT !.containedInnerOpeningBlockComment = TRUE],
                      inTSComment, result)
             ELSE IF inTSComment /\ type = close
             THEN pairDelimiters(m, rest, freshPosition, FALSE,
                      Append(result, [tsCommentPosition EXCEPT !.close = at]))
             ELSE pairDelimiters(m, rest, tsCommentPosition, inTSComment, result)

\* the loop run over the delimiters in decreasing order of offset
tsCommentPositionsUnsorted(m) ==
    LET ds == sortedFrom(DOMAIN m, <<>>) IN
    pairDelimiters(m, [k \in 1 .. Len(ds) |-> ds[Len(ds) + 1 - k]], freshPosition, FALSE, <<>>)

\* spans whose close is the offset after the closing delimiter
tsCommentPositionsEndExclusive(m) ==
    LET spans == pairDelimiters(m, sortedFrom(DOMAIN m, <<>>), freshPosition, FALSE, <<>>) IN
    [k \in 1 .. Len(spans) |-> [spans[k] EXCEPT !.close = @ + 2]]

tsCommentPositionsOf(m) ==
    pairDelimiters(m, sortedFrom(DOMAIN m, <<>>), freshPosition, FALSE, <<>>)

Offsets == 0 .. Len(text)

CursorIds == 1 .. Len(cursors)

CanCall == component = "cursor"

\* clone(): createTSCommentScanner({ text }, pos, state, _delimiterPositions), where
\* _delimiterPositions is the clone's own parameter, undefined when it had none
cloneCursor(i) ==
    LET c == cursors[i] IN
    IF c.hasParam
    THEN /\ cursors' = Append(cursors, [pos |-> c.pos, state |-> c.state,
                                        hasParam |-> TRUE, map |-> c.map])
         /\ maps' = maps
    ELSE /\ cursors' = Append(cursors, [pos |-> c.pos, state |-> c.state,
                                        hasParam |-> FALSE, map |-> Len(maps) + 1])
         /\ maps' = Append(maps, EmptyMap)

clone(i) ==
    /\ component = "cursor"
    /\ Len(cursors) < MaxCursors
    /\ cloneCursor(i)
    /\ Returned("clone", i, <<>>, TRUE, FALSE, <<>>)
    /\ UNCHANGED <<text, component, lastScan, trackerVars, scannerVars>>

\* the two scans with the node scanned to its end, significant text or not
leafNodeScansBodyUnstopped(sm, t, p, nodePos, nodeEnd) ==
    LET second(r1) ==
            IF r1.threw THEN r1
            ELSE cursorScan([state |-> r1.state, map |-> r1.map], t, nodePos, nodeEnd, FALSE)
    IN  second(cursorScan(sm, t, p, nodePos, FALSE))

\* the two scans of scanThroughLeafNode, from (state, map) sm at offset p
leafNodeScans(sm, t, p, nodePos, nodeEnd) ==
    LET second(r1) ==
            IF r1.threw THEN r1
            ELSE cursorScan([state |-> r1.state, map |-> r1.map], t, nodePos, nodeEnd, TRUE)
    IN  second(cursorScan(sm, t, p, nodePos, FALSE))

\* scanThroughLeafNode leaving the cursor at the start of the node
scanThroughLeafNodeToStart(i, nodePos, nodeEnd) ==
    LET c == cursors[i] IN
    /\ CanCall
    /\ IF nodeEnd < c.pos
       THEN /\ Returned("scanThroughLeafNode", i, <<nodePos, nodeEnd>>, TRUE, FALSE, <<>>)
            /\ UNCHANGED <<cursors, maps>>
       ELSE \E r \in {leafNodeScans(SM(c), text, c.pos, nodePos, nodeEnd)} :
            IF r.threw
            THEN /\ Commit(i, r, c.pos)
                 /\ Returned("scanThroughLeafNode", i, <<nodePos, nodeEnd>>, FALSE, FALSE, <<>>)
            ELSE /\ Commit(i, r, nodePos)
                 /\ Returned("scanThroughLeafNode", i, <<nodePos, nodeEnd>>, TRUE,
                             r.state = inTSBlockComment, <<>>)
    /\ UNCHANGED <<text, component, lastScan, trackerVars, scannerVars>>

scanThroughLeafNode(i, nodePos, nodeEnd) ==
    LET c == cursors[i] IN
    /\ CanCall
    /\ IF nodeEnd < c.pos
       THEN /\ Returned("scanThroughLeafNode", i, <<nodePos, nodeEnd>>, TRUE, FALSE, <<>>)
            /\ UNCHANGED <<cursors, maps>>
       ELSE \E r \in {leafNodeScans(SM(c), text, c.pos, nodePos, nodeEnd)} :
            IF r.threw
            THEN /\ Commit(i, r, c.pos)
                 /\ Returned("scanThroughLeafNode", i, <<nodePos, nodeEnd>>, FALSE, FALSE, <<>>)
            ELSE /\ Commit(i, r, nodeEnd)
                 /\ Returned("scanThroughLeafNode", i, <<nodePos, nodeEnd>>, TRUE,
                             r.state = inTSBlockComment, <<>>)
    /\ UNCHANGED <<text, component, lastScan, trackerVars, scannerVars>>

\* the two scans of scanTo and its allInTSComment
scanToScans(sm, t, p, end) ==
    LET both(r1, r2) ==
            r2 @@ [allInTSComment |-> r1.state = inTSBlockComment /\ r2.delimiters = 0]
        second(r1) ==
            IF r1.threw THEN r1 @@ [allInTSComment |-> FALSE]
            ELSE both(r1, cursorScan([state |-> r1.state, map |-> r1.map],
                                     t, r1.stoppedAt, end, FALSE))
    IN  second(cursorScan(sm, t, p, end, TRUE))

\* scanTo refusing a bound equal to the position as well
scanToRefusingSameBound(i, end) ==
    LET c == cursors[i] IN
    /\ CanCall
    /\ IF end <= c.pos
       THEN /\ Returned("scanTo", i, <<end>>, TRUE, FALSE, <<>>)
            /\ UNCHANGED <<cursors, maps>>
       ELSE \E r \in {scanToScans(SM(c), text, c.pos, end)} :
            IF r.threw
            THEN /\ Commit(i, r, c.pos)
                 /\ Returned("scanTo", i, <<end>>, FALSE, FALSE, <<>>)
            ELSE /\ Commit(i, r, end)
                 /\ Returned("scanTo", i, <<end>>, TRUE, r.allInTSComment, <<>>)
    /\ UNCHANGED <<text, component, lastScan, trackerVars, scannerVars>>

scanTo(i, end) ==
    LET c == cursors[i] IN
    /\ CanCall
    /\ IF end < c.pos
       THEN /\ Returned("scanTo", i, <<end>>, TRUE, FALSE, <<>>)
            /\ UNCHANGED <<cursors, maps>>
       ELSE \E r \in {scanToScans(SM(c), text, c.pos, end)} :
            IF r.threw
            THEN /\ Commit(i, r, c.pos)
                 /\ Returned("scanTo", i, <<end>>, FALSE, FALSE, <<>>)
            ELSE /\ Commit(i, r, end)
                 /\ Returned("scanTo", i, <<end>>, TRUE, r.allInTSComment, <<>>)
    /\ UNCHANGED <<text, component, lastScan, trackerVars, scannerVars>>

\* scanUntilNextSignificantChar without its early return
scanUntilNextSignificantCharUnguarded(i, max) ==
    LET c == cursors[i] IN
    /\ CanCall
    /\ \E r \in {cursorScan(SM(c), text, c.pos, max, TRUE)} :
          /\ Commit(i, r, c.pos)
          /\ Returned("scanUntilNextSignificantChar", i, <<max>>, ~r.threw,
                      ~r.threw /\ r.state = inTSBlockComment, <<>>)
    /\ UNCHANGED <<text, component, lastScan, trackerVars, scannerVars>>

scanUntilNextSignificantChar(i, max) ==
    LET c == cursors[i] IN
    /\ CanCall
    /\ IF max < c.pos
       THEN /\ Returned("scanUntilNextSignificantChar", i, <<max>>, TRUE, FALSE, <<>>)
            /\ UNCHANGED <<cursors, maps>>
       ELSE \E r \in {cursorScan(SM(c), text, c.pos, max, TRUE)} :
            \* the offset commentScan returns is dropped: pos is not assigned
            /\ Commit(i, r, c.pos)
            /\ Returned("scanUntilNextSignificantChar", i, <<max>>, ~r.threw,
                        ~r.threw /\ r.state = inTSBlockComment, <<>>)
    /\ UNCHANGED <<text, component, lastScan, trackerVars, scannerVars>>

\* the loop shared by scanUntilAtChar and scanUntilPastChar: at each offset run
\* commentScan from it (its result dropped), then test text[pos]
RECURSIVE scanUntilLoop(_, _, _, _, _, _)
scanUntilLoop(sm, t, p, charList, max, past) ==
    IF ~(p < max) THEN [state |-> sm.state, map |-> sm.map, pos |-> p, threw |-> FALSE]
    ELSE LET step(r) ==
                 IF r.threw THEN [state |-> r.state, map |-> r.map, pos |-> p, threw |-> TRUE]
                 ELSE IF CharAt(t, p) \in charList
                 THEN [state |-> r.state, map |-> r.map,
                       pos |-> IF past THEN p + 1 ELSE p, threw |-> FALSE]
                 ELSE scanUntilLoop([state |-> r.state, map |-> r.map],
                                    t, p + 1, charList, max, past)
         IN  step(cursorScan(sm, t, p, max, TRUE))

scanUntilAtChar(i, charList, max) ==
    /\ CanCall
    /\ \E r \in {scanUntilLoop(SM(cursors[i]), text, cursors[i].pos, charList, max, FALSE)} :
          /\ Commit(i, r, r.pos)
          /\ Returned("scanUntilAtChar", i, <<max>>, ~r.threw, FALSE, <<>>)
    /\ UNCHANGED <<text, component, lastScan, trackerVars, scannerVars>>

scanUntilPastChar(i, charList, max) ==
    /\ CanCall
    /\ \E r \in {scanUntilLoop(SM(cursors[i]), text, cursors[i].pos, charList, max, TRUE)} :
          /\ Commit(i, r, r.pos)
          /\ Returned("scanUntilPastChar", i, <<max>>, ~r.threw, FALSE, <<>>)
    /\ UNCHANGED <<text, component, lastScan, trackerVars, scannerVars>>

getTSCommentPositions(i) ==
    /\ component = "cursor"
    /\ ret.op # "getTSCommentPositions" \/ ret.cur # i
    /\ Returned("getTSCommentPositions", i, <<>>, TRUE, FALSE,
                tsCommentPositionsOf(getBlockCommentDelimiters(i)))
    /\ UNCHANGED <<text, component, lastScan, cursors, maps, trackerVars, scannerVars>>

-----------------------------------------------------------------------------
(* createTSSyntaxTracker *)

typeScript == "typeScript"
javaScript == "javaScript"
whitespace == "whitespace"

Range(start, end, type) == [start |-> start, end |-> end, type |-> type]

skipWhitespaceThenMarkRangeAsTS(start, end) ==
    /\ component = "tracker"
    /\ Len(tsSyntaxRanges) < MaxRanges
    /\ Len(whitespaceSyntaxRanges) < MaxRanges
    /\ \E r \in {commentScan(text, start, end, TRUE)} :
          \E realStart \in {r.pos} :
             /\ whitespaceSyntaxRanges' =
                   IF ~r.threw /\ start < realStart
                   THEN Append(whitespaceSyntaxRanges, Range(start, realStart, whitespace))
                   ELSE whitespaceSyntaxRanges
             /\ tsSyntaxRanges' =
                   IF ~r.threw /\ realStart < end
                   THEN Append(tsSyntaxRanges, Range(realStart, end, typeScript))
                   ELSE tsSyntaxRanges
    /\ yielded' = [done |-> FALSE, ranges |-> <<>>]
    /\ UNCHANGED <<text, component, lastScan, cursorVars, scannerVars>>

\* ranges.sort((a, b) => a.start - b.start): a stable sort by start
RECURSIVE insertByStart(_, _)
insertByStart(sorted, r) ==
    IF sorted = <<>> THEN <<r>>
    ELSE IF sorted[Len(sorted)].start <= r.start THEN Append(sorted, r)
    ELSE Append(insertByStart(SubSeq(sorted, 1, Len(sorted) - 1), r), sorted[Len(sorted)])

RECURSIVE sortByStartInto(_, _)
sortByStartInto(rs, acc) ==
    IF rs = <<>> THEN acc ELSE sortByStartInto(Tail(rs), insertByStart(acc, Head(rs)))

sortByStart(rs) == sortByStartInto(rs, <<>>)

\* a merge that stops at the first range, whatever the next one overlaps
mergeTsRangesFirstOnly(ts, ti, end) == [end |-> ts[ti].end, tsRangeIndex |-> ti + 1]

\* a merge that takes in the next range only when it starts before the running maximum
RECURSIVE mergeTsRangesOverlapOnly(_, _, _)
mergeTsRangesOverlapOnly(ts, ti, end) ==
    LET e == Max(end, ts[ti].end) IN
    IF ti + 1 > Len(ts) \/ ts[ti + 1].start >= e
    THEN [end |-> e, tsRangeIndex |-> ti + 1]
    ELSE mergeTsRangesOverlapOnly(ts, ti + 1, e)

\* "Merge overlapping TS ranges": from index ti with running maximum end
RECURSIVE mergeTsRanges(_, _, _)
mergeTsRanges(ts, ti, end) ==
    LET e == Max(end, ts[ti].end) IN
    IF ti + 1 > Len(ts) \/ ts[ti + 1].start > e
    THEN [end |-> e, tsRangeIndex |-> ti + 1]
    ELSE mergeTsRanges(ts, ti + 1, e)

\* the while loop of getSyntaxRanges over the sorted arrays
RECURSIVE sweepRanges(_, _, _, _, _, _, _)
sweepRanges(ts, ws, len, p, wi, ti, out) ==
    IF ~(p < len) THEN out
    ELSE LET inf == len + 1
             whitespaceStart == IF wi <= Len(ws) THEN ws[wi].start ELSE inf
             tsStart == IF ti <= Len(ts) THEN ts[ti].start ELSE inf
         IN  IF p = tsStart
             THEN LET m == mergeTsRanges(ts, ti, -1) IN
                  sweepRanges(ts, ws, len, m.end, wi, m.tsRangeIndex,
                              Append(out, Range(tsStart, m.end, typeScript)))
             ELSE IF p >= whitespaceStart
             THEN LET whitespaceEnd == ws[wi].end IN
                  IF whitespaceEnd < tsStart
                  THEN sweepRanges(ts, ws, len, Max(p, whitespaceEnd), wi + 1, ti, out)
                  ELSE sweepRanges(ts, ws, len, tsStart, wi, ti, out)
             ELSE LET end == Min(Min(tsStart, whitespaceStart), len) IN
                  sweepRanges(ts, ws, len, end, wi, ti, Append(out, Range(p, end, javaScript)))

getSyntaxRanges ==
    /\ component = "tracker"
    /\ ~yielded.done
    /\ \E ts \in {sortByStart(tsSyntaxRanges)}, ws \in {sortByStart(whitespaceSyntaxRanges)} :
          /\ tsSyntaxRanges' = ts
          /\ whitespaceSyntaxRanges' = ws
          /\ yielded' = [done |-> TRUE,
                         ranges |-> sweepRanges(ts, ws, Len(text), 0, 1, 1, <<>>)]
    /\ UNCHANGED <<text, component, lastScan, cursorVars, scannerVars>>

-----------------------------------------------------------------------------
(* skipTrivia and couldStartTrivia *)

couldStartTrivia(t, p) ==
    LET ch == CharAt(t, p) IN
    IF ch \in {"\r", "\n", "\t", " ", "/", "<", "|", "=", ">"} THEN TRUE
    ELSE IF ch = "#" THEN p = 0
    ELSE FALSE                  \* no character of Alphabet is above maxAsciiCharacter

\* a "/*" branch that steps over the colon of "/*:"
skipTriviaBlockCommentPastColon(t, p) ==
    LET q == skipSpaces(t, p + 2, Len(t))
        isTsComment == q < Len(t) /\ CharAt(t, q) = ":"
        colonCount == colonCountAt(t, q)
    IN  IF isTsComment /\ colonCount \in {1, 2}
        THEN [pos |-> q + colonCount, continue |-> TRUE, marker |-> TRUE]
        ELSE LET body == IF isTsComment THEN q + 3 ELSE q
                 c == findClose(t, body, Len(t))
             IN  [pos |-> IF c >= 0 THEN c + 2 ELSE Max(body, Len(t)),
                  continue |-> TRUE, marker |-> FALSE]

\* the "/*" branch of skipTrivia at p: the offset reached and whether the loop goes on
skipTriviaBlockComment(t, p) ==
    LET q == skipSpaces(t, p + 2, Len(t))
        isTsComment == q < Len(t) /\ CharAt(t, q) = ":"
        colonCount == colonCountAt(t, q)
    IN  IF isTsComment /\ colonCount = 1
        THEN [pos |-> q, continue |-> FALSE, marker |-> TRUE]
        ELSE IF isTsComment /\ colonCount = 2
        THEN [pos |-> q + 2, continue |-> TRUE, marker |-> TRUE]
        ELSE LET body == IF isTsComment THEN q + 3 ELSE q
                 c == findClose(t, body, Len(t))
             IN  [pos |-> IF c >= 0 THEN c + 2 ELSE Max(body, Len(t)),
                  continue |-> TRUE, marker |-> FALSE]

RECURSIVE skipTriviaFrom(_, _, _, _, _, _)
skipTriviaFrom(t, p, stopAfterLineBreak, stopAtComments, inJSDoc, canConsumeStar) ==
    LET ch == CharAt(t, p) IN
    IF isLineBreak(ch)
    THEN LET q == IF ch = "\r" /\ CharAt(t, p + 1) = "\n" THEN p + 2 ELSE p + 1 IN
         IF stopAfterLineBreak THEN q
         ELSE skipTriviaFrom(t, q, stopAfterLineBreak, stopAtComments, inJSDoc, inJSDoc)
    ELSE IF isWhiteSpaceSingleLine(ch)
    THEN skipTriviaFrom(t, p + 1, stopAfterLineBreak, stopAtComments, inJSDoc, canConsumeStar)
    ELSE IF ch = "/"
    THEN IF stopAtComments THEN p
         ELSE IF CharAt(t, p + 1) = "/"
         THEN skipTriviaFrom(t, skipToLineBreak(t, p + 2, Len(t)),
                             stopAfterLineBreak, stopAtComments, inJSDoc, FALSE)
         ELSE IF CharAt(t, p + 1) = "*"
         THEN LET b == skipTriviaBlockComment(t, p) IN
              IF ~b.continue THEN b.pos
              ELSE skipTriviaFrom(t, b.pos, stopAfterLineBreak, stopAtComments, inJSDoc,
                                  \* "/*::" goes on without touching canConsumeStar
                                  b.marker /\ canConsumeStar)
         ELSE p
    ELSE IF ch = "#"
    THEN IF p = 0 /\ isShebangTrivia(t)
         THEN skipTriviaFrom(t, scanShebangTrivia(t, p),
                             stopAfterLineBreak, stopAtComments, inJSDoc, FALSE)
         ELSE p
    ELSE IF ch = "*"
    THEN IF canConsumeStar
         THEN skipTriviaFrom(t, p + 1, stopAfterLineBreak, stopAtComments, inJSDoc, FALSE)
         ELSE IF CharAt(t, p + 1) = "/"
         THEN skipTriviaFrom(t, p + 2, stopAfterLineBreak, stopAtComments, inJSDoc,
                             canConsumeStar)
         ELSE p
    ELSE p

\* positionIsSynthesized(pos) is pos < 0
skipTrivia(t, p, stopAfterLineBreak, stopAtComments, inJSDoc) ==
    IF p < 0 THEN p
    ELSE skipTriviaFrom(t, p, stopAfterLineBreak, stopAtComments, inJSDoc, FALSE)

callSkipTrivia(p, stopAfterLineBreak, stopAtComments, inJSDoc) ==
    /\ component = "skipTrivia"
    /\ trivia' = [from |-> p, stopAfterLineBreak |-> stopAfterLineBreak,
                  stopAtComments |-> stopAtComments, inJSDoc |-> inJSDoc,
                  to |-> skipTrivia(text, p, stopAfterLineBreak, stopAtComments, inJSDoc),
                  couldStart |-> couldStartTrivia(text, p)]
    /\ UNCHANGED <<text, component, lastScan, cursorVars, trackerVars,
                   pos, fullStartPos, tokenStart, token, tokenFlags, errors, tokens>>

-----------------------------------------------------------------------------
(* createScanner(languageVersion, /*skipTrivia*/ true): scan() *)

EndOfFileToken == "EndOfFileToken"
Unknown == "Unknown"

PrecedingLineBreak == "PrecedingLineBreak"
PrecedingJSDocComment == "PrecedingJSDocComment"
enteringTSComment == "enteringTSComment"

\* textToKeywordObj, for the words the Letters can spell
textToKeyword ==
    (<<"a", "n", "y">> :> "AnyKeyword")
        @@ (<<"e", "n", "u", "m">> :> "EnumKeyword")
        @@ (<<"n", "u", "m", "b", "e", "r">> :> "NumberKeyword")

RECURSIVE scanIdentifierParts(_, _)
scanIdentifierParts(t, p) ==
    IF p < Len(t) /\ isIdentifierPart(CharAt(t, p)) THEN scanIdentifierParts(t, p + 1) ELSE p

\* the token of the identifier text[from .. to)
getIdentifierToken(t, from, to) ==
    IF SubSeq(t, from + 1, to) \in DOMAIN textToKeyword
    THEN textToKeyword[SubSeq(t, from + 1, to)]
    ELSE "Identifier"

Returns(s, p, kind) == [s EXCEPT !.pos = p, !.token = kind]

Error(s, message) == [s EXCEPT !.errors = @ \cup {message}]

\* a "/*" branch that leaves pos on the first colon of "/*::" as it does for "/*:"
scanBlockCommentKeepsColons(t, s) ==
    [s EXCEPT !.pos = skipSpaces(t, s.pos + 2, Len(t)),
              !.tokenFlags = @ \cup {enteringTSComment}]

\* a "/*" branch that steps over the colon of "/*:" as it does over those of "/*::"
scanBlockCommentSkipsColon(t, s) ==
    [s EXCEPT !.pos = skipSpaces(t, s.pos + 2, Len(t)) + colonCountAt(t, skipSpaces(t, s.pos + 2, Len(t))),
              !.tokenFlags = @ \cup {enteringTSComment}]

\* the "/*" branch of scan() with tokenStart at the "/": the scanner after it, token
\* left as it was (the loop continues in every case, skipTrivia being true)
scanBlockComment(t, s) ==
    LET p == s.pos + 2
        isJSDoc == CharAt(t, p) = "*" /\ CharAt(t, p + 1) # "/"
        q == skipSpaces(t, p, Len(t))
        isTsComment == q < Len(t) /\ CharAt(t, q) = ":"
        colonCount == colonCountAt(t, q)
    IN  IF isTsComment /\ colonCount \in {1, 2}
        THEN [s EXCEPT !.pos = IF colonCount = 1 THEN q ELSE q + 2,
                       !.tokenFlags = @ \cup {enteringTSComment}]
        ELSE LET body == IF isTsComment THEN q + 3 ELSE q
                 c == findClose(t, body, Len(t))
                 stop == IF c >= 0 THEN c + 2 ELSE Max(body, Len(t))
                 lineBreak == \E k \in body .. (Min(stop, IF c >= 0 THEN c ELSE stop) - 1) :
                                  isLineBreak(CharAt(t, k))
                 flagged == [s EXCEPT !.pos = stop,
                                      !.tokenFlags = @ \cup (IF lineBreak THEN {PrecedingLineBreak} ELSE {})
                                                       \cup (IF isJSDoc THEN {PrecedingJSDocComment} ELSE {})]
             IN  IF c >= 0 THEN flagged ELSE Error(flagged, "Asterisk_Slash_expected")

RECURSIVE scanFrom(_, _)
scanFrom(t, s0) ==
    LET s == [s0 EXCEPT !.tokenStart = s0.pos]
        p == s.pos
        ch == CharAt(t, p)
    IN  IF p >= Len(t) THEN Returns(s, p, EndOfFileToken)
        ELSE IF p = 0 /\ ch = "#" /\ isShebangTrivia(t)
        THEN scanFrom(t, [s EXCEPT !.pos = scanShebangTrivia(t, p)])
        ELSE IF isLineBreak(ch)
        THEN scanFrom(t, [s EXCEPT !.pos = p + 1, !.tokenFlags = @ \cup {PrecedingLineBreak}])
        ELSE IF isWhiteSpaceSingleLine(ch)
        THEN scanFrom(t, [s EXCEPT !.pos = p + 1])
        ELSE IF ch = "!"
        THEN IF CharAt(t, p + 1) = "="
             THEN IF CharAt(t, p + 2) = "="
                  THEN Returns(s, p + 3, "ExclamationEqualsEqualsToken")
                  ELSE Returns(s, p + 2, "ExclamationEqualsToken")
             ELSE Returns(s, p + 1, "ExclamationToken")
        ELSE IF ch = "*"
        THEN IF CharAt(t, p + 1) = "/"
             THEN scanFrom(t, [s EXCEPT !.pos = p + 2,
                                        !.tokenFlags = @ \ {enteringTSComment}])
             ELSE IF CharAt(t, p + 1) = "=" THEN Returns(s, p + 2, "AsteriskEqualsToken")
             ELSE IF CharAt(t, p + 1) = "*"
             THEN IF CharAt(t, p + 2) = "="
                  THEN Returns(s, p + 3, "AsteriskAsteriskEqualsToken")
                  ELSE Returns(s, p + 2, "AsteriskAsteriskToken")
             ELSE Returns(s, p + 1, "AsteriskToken")      \* inJSDocType is 0
        ELSE IF ch = "/"
        THEN IF CharAt(t, p + 1) = "/"
             THEN scanFrom(t, [s EXCEPT !.pos = skipToLineBreak(t, p + 2, Len(t))])
             ELSE IF CharAt(t, p + 1) = "*"
             THEN scanFrom(t, scanBlockComment(t, s))
             ELSE IF CharAt(t, p + 1) = "=" THEN Returns(s, p + 2, "SlashEqualsToken")
             ELSE Returns(s, p + 1, "SlashToken")
        ELSE IF ch = ":" THEN Returns(s, p + 1, "ColonToken")
        ELSE IF ch = "@" THEN Returns(s, p + 1, "AtToken")
        ELSE IF ch = "#"
        THEN IF p # 0 /\ CharAt(t, p + 1) = "!"
             THEN Returns(Error(s, "can_only_be_used_at_the_start_of_a_file"), p + 1, Unknown)
             ELSE IF isIdentifierStart(CharAt(t, p + 1))
             THEN Returns(s, scanIdentifierParts(t, p + 2), "PrivateIdentifier")
             ELSE Returns(Error(s, "Invalid_character"), p + 1, "PrivateIdentifier")
        ELSE IF isIdentifierStart(ch)
        THEN LET e == scanIdentifierParts(t, p + 1) IN
             Returns(s, e, getIdentifierToken(t, p, e))
        ELSE Returns(Error(s, "Invalid_character"), p + 1, Unknown)

\* scan(): fullStartPos = pos; tokenFlags = None; then the loop
scanToken(t, p, errs) ==
    scanFrom(t, [pos |-> p, tokenStart |-> p, tokenFlags |-> {}, errors |-> errs,
                 token |-> Unknown])

scan ==
    /\ component = "scanner"
    /\ token # EndOfFileToken
    /\ \E s \in {scanToken(text, pos, errors)} :
          /\ fullStartPos' = pos
          /\ pos' = s.pos
          /\ tokenStart' = s.tokenStart
          /\ token' = s.token
          /\ tokenFlags' = s.tokenFlags
          /\ errors' = s.errors
          /\ tokens' = Append(tokens, [kind |-> s.token, start |-> s.tokenStart])
    /\ UNCHANGED <<text, component, lastScan, cursorVars, trackerVars, trivia>>

\* scan() called until it returns EndOfFileToken, on a scanner created over t
RECURSIVE scanAllFrom(_, _, _)
scanAllFrom(t, p, acc) ==
    LET next(s) ==
            IF s.token = EndOfFileToken
            THEN Append(acc, [kind |-> s.token, start |-> s.tokenStart])
            ELSE scanAllFrom(t, s.pos, Append(acc, [kind |-> s.token, start |-> s.tokenStart]))
    IN  next(scanToken(t, p, {}))

scanAll(t) == scanAllFrom(t, 0, <<>>)

-----------------------------------------------------------------------------
(* The texts of the runs *)

SeqsUpTo(S, n) == UNION {[1 .. k -> S] : k \in 0 .. n}

RECURSIVE Concat(_)
Concat(ss) == IF ss = <<>> THEN <<>> ELSE Head(ss) \o Concat(Tail(ss))

\* every text of at most MaxRawLen characters that matter to the classifier
RawChars == {"/", "*", ":", " ", "a"}
RawTexts == SeqsUpTo(RawChars, MaxRawLen)

\* the texts of the direct calls: at most MaxScanLen characters, after a shebang or not
ScanChars == {"/", "*", ":", " ", "a", "\n"}
ScanTexts ==
    SeqsUpTo(ScanChars, MaxScanLen)
        \cup {<<"#", "!">> \o x : x \in SeqsUpTo(ScanChars, MaxScanLen - 2)}

\* texts made of whole comments and code
Segments ==
    { <<"/", "*", ":", "a", "*", "/">>,                         \* /*:a*/
      <<"/", "*", ":", ":", "a", "*", "/">>,                    \* /*::a*/
      <<"/", "*", " ", ":", ":", ":", "a", "*", "/">>,          \* /* :::a*/
      <<"/", "*", "*", "a", "*", "/">>,                         \* /**a*/
      <<"/", "*", ":", ":", "a", "/", "*", "*", "b", "*", "/">>,  \* /*::a/**b*/
      <<"a">>, <<" ">> }
SegmentTexts == {Concat(ss) : ss \in SeqsUpTo(Segments, MaxSegments)}

\* the texts of the documented scenarios
NumberAnnotation ==         \* /*: number */
    <<"/", "*", ":", " ", "n", "u", "m", "b", "e", "r", " ", "*", "/">>
JSDocThenMarker ==          \* /** @x *//*:: y */
    <<"/", "*", "*", " ", "@", "x", " ", "*", "/", "/", "*", ":", ":", " ", "y", " ", "*", "/">>
TripleColon ==              \* /*::: bad */
    <<"/", "*", ":", ":", ":", " ", "b", "a", "e", " ", "*", "/">>
ScenarioTexts == {NumberAnnotation, JSDocThenMarker, TripleColon}

\* the texts of the whole-file runs
FileTexts == SegmentTexts \cup ScenarioTexts

\* the texts crossed with scanTo alone
ScanToChars == {"/", "*", ":", " "}
ScanToTexts == SeqsUpTo(ScanToChars, MaxScanToLen)

\* the texts crossed with scanThroughLeafNode alone
LeafTexts == SeqsUpTo(ScanToChars, MaxLeafLen)

\* the texts of the runs with clones
CloneTexts == SeqsUpTo({"/", "*", ":"}, MaxRawLen)

\* the texts of the scanner runs: one marker comment `/*:: X */` or `/*: X */`, for
\* every body X of at most MaxBodyLen characters that holds no "/*" and no "*/"
BodyChars == {"a", ":", "#", "!", " ", "/", "*"}
hasDelimiter(x) ==
    \E k \in 1 .. Len(x) - 1 : <<x[k], x[k + 1]>> \in {<<"/", "*">>, <<"*", "/">>}
Bodies == {x \in SeqsUpTo(BodyChars, MaxBodyLen) : ~hasDelimiter(x)}
doubleMarker(x) == <<"/", "*", ":", ":", " ">> \o x \o <<" ", "*", "/">>
singleMarker(x) == <<"/", "*", ":", " ">> \o x \o <<" ", "*", "/">>
MarkerTexts == {doubleMarker(x) : x \in Bodies} \cup {singleMarker(x) : x \in Bodies}


\* a comment that runs to the end of the text: "/*:: X", "/*: X" and "/* X", for the
\* same bodies
unterminatedDoubleMarker(x) == <<"/", "*", ":", ":", " ">> \o x
unterminatedSingleMarker(x) == <<"/", "*", ":", " ">> \o x
unterminatedComment(x) == <<"/", "*", " ">> \o x
UnterminatedTexts ==
    {unterminatedDoubleMarker(x) : x \in Bodies}
        \cup {unterminatedSingleMarker(x) : x \in Bodies}
        \cup {unterminatedComment(x) : x \in Bodies}

\* a double-marker opener followed by any text: "/*::" then at most MaxTailLen
\* characters, comment delimiters included
TailChars == {"/", "*", ":", " ", "a"}
openedDoubleMarker(x) == <<"/", "*", ":", ":">> \o x
OpenedTexts == {openedDoubleMarker(x) : x \in SeqsUpTo(TailChars, MaxTailLen)}

-----------------------------------------------------------------------------
(* The state after construction *)

NoReturn == [op |-> "none", cur |-> 0, args |-> <<>>, again |-> FALSE,
             ok |-> TRUE, bool |-> FALSE, spans |-> <<>>]
NoTrivia == [from |-> -1, stopAfterLineBreak |-> FALSE, stopAtComments |-> FALSE,
             inJSDoc |-> FALSE, to |-> -1, couldStart |-> FALSE]

\* createTSCommentScanner(file) or createTSCommentScanner(file, 0, notInComment, new Map())
CursorCreated(explicitMap) ==
    /\ cursors = <<[pos |-> 0, state |-> notInComment, hasParam |-> explicitMap, map |-> 1]>>
    /\ maps = <<EmptyMap>>
    /\ ret = NoReturn

TrackerCreated ==
    /\ tsSyntaxRanges = <<>>
    /\ whitespaceSyntaxRanges = <<>>
    /\ yielded = [done |-> FALSE, ranges |-> <<>>]

\* createScanner(..., text): setText, resetTokenState(0)
ScannerCreated ==
    /\ pos = 0
    /\ fullStartPos = 0
    /\ tokenStart = 0
    /\ token = Unknown
    /\ tokenFlags = {}
    /\ errors = {}
    /\ tokens = <<>>
    /\ trivia = NoTrivia

Created(texts, components, explicitMaps) ==
    /\ text \in texts
    /\ component \in components
    /\ lastScan = NoScan
    /\ \E explicitMap \in explicitMaps : CursorCreated(explicitMap)
    /\ TrackerCreated
    /\ ScannerCreated

-----------------------------------------------------------------------------
(* Whole-file runs: a fresh cursor scans the file with scanTo(text.length), the    *)
(* scanner is driven to the end of the file, skipTrivia is called at any offset    *)

Init == Created(FileTexts, {"cursor", "scanner", "skipTrivia"}, {FALSE})

Next ==
    \/ scanTo(1, Len(text))
    \/ getTSCommentPositions(1)
    \/ scan
    \/ \E p \in Offsets, stopAfterLineBreak \in BOOLEAN, stopAtComments \in BOOLEAN,
          inJSDoc \in BOOLEAN :
           callSkipTrivia(p, stopAfterLineBreak, stopAtComments, inJSDoc)

Spec == Init /\ [][Next]_vars

-----------------------------------------------------------------------------
(* One cursor, any call with any bound *)

\* the characters the runs search for
AtChars == {":"}
PastChars == {"a", ":"}

InitCursor == Created(RawTexts, {"cursor"}, {FALSE})

NextCursor ==
    \/ \E i \in CursorIds, end \in Offsets : scanTo(i, end)
    \/ \E i \in CursorIds, nodeEnd \in Offsets :
           \E nodePos \in 0 .. nodeEnd : scanThroughLeafNode(i, nodePos, nodeEnd)
    \/ \E i \in CursorIds, max \in Offsets : scanUntilNextSignificantChar(i, max)
    \/ \E i \in CursorIds, max \in Offsets : scanUntilAtChar(i, AtChars, max)
    \/ \E i \in CursorIds, max \in Offsets : scanUntilPastChar(i, PastChars, max)
    \/ \E i \in CursorIds : getTSCommentPositions(i)

SpecCursor == InitCursor /\ [][NextCursor]_vars

-----------------------------------------------------------------------------
(* A cursor moved with scanTo alone, over longer texts *)

InitScanTo == Created(ScanToTexts, {"cursor"}, {FALSE})

NextScanTo == \E i \in CursorIds, end \in Offsets : scanTo(i, end)

SpecScanTo == InitScanTo /\ [][NextScanTo]_vars

-----------------------------------------------------------------------------
(* A cursor moved with scanThroughLeafNode alone *)

InitLeafNode == Created(LeafTexts, {"cursor"}, {FALSE})

NextLeafNode ==
    \E i \in CursorIds, nodeEnd \in Offsets :
        \E nodePos \in 0 .. nodeEnd : scanThroughLeafNode(i, nodePos, nodeEnd)

SpecLeafNode == InitLeafNode /\ [][NextLeafNode]_vars

-----------------------------------------------------------------------------
(* commentScan called directly, with any bounds *)

InitClassifier == Created(ScanTexts, {"commentScan"}, {FALSE})

NextClassifier ==
    \E start \in Offsets, end \in Offsets, stopOnSignificantText \in BOOLEAN :
        callCommentScan(start, end, stopOnSignificantText)

SpecClassifier == InitClassifier /\ [][NextClassifier]_vars

-----------------------------------------------------------------------------
(* A cursor and its clones *)

InitClone == Created(CloneTexts, {"cursor"}, BOOLEAN)

NextClone ==
    \/ \E i \in CursorIds : clone(i)
    \/ NextCursor

SpecClone == InitClone /\ [][NextClone]_vars

-----------------------------------------------------------------------------
(* The range tracker *)

InitTracker == Created(RawTexts, {"tracker"}, {FALSE})

NextTracker ==
    \/ \E end \in Offsets : \E start \in 0 .. end : skipWhitespaceThenMarkRangeAsTS(start, end)
    \/ getSyntaxRanges

SpecTracker == InitTracker /\ [][NextTracker]_vars

-----------------------------------------------------------------------------
(* The scanner over one marker comment *)

InitScanner == Created(MarkerTexts, {"scanner"}, {FALSE})

NextScanner == scan

SpecScanner == InitScanner /\ [][NextScanner]_vars

-----------------------------------------------------------------------------
(* The scanner over a comment that is never closed *)

InitUnterminated == Created(UnterminatedTexts, {"scanner"}, {FALSE})

NextUnterminated == scan

SpecUnterminated == InitUnterminated /\ [][NextUnterminated]_vars

-----------------------------------------------------------------------------
(* The scanner, skipTrivia at any offset, commentScan and a cursor over the whole   *)
(* text, behind a double-marker opener                                             *)

InitOpened ==
    Created(OpenedTexts, {"scanner", "skipTrivia", "commentScan", "cursor"}, {FALSE})

NextOpened ==
    \/ scan
    \/ \E p \in Offsets : callSkipTrivia(p, FALSE, FALSE, FALSE)
    \/ callCommentScan(0, Len(text), FALSE)
    \/ scanTo(1, Len(text))
    \/ getTSCommentPositions(1)

SpecOpened == InitOpened /\ [][NextOpened]_vars

-----------------------------------------------------------------------------
(* createTSSyntaxTracker: the ranges yielded *)

inRange(o, r) == r.start <= o /\ o < r.end

\* C1: whatever ranges were declared with 0 <= start <= end <= text.length, the
\* ranges getSyntaxRanges() yields are in strictly increasing start order, each
\* ends at or before the start of the next, and every offset of the text that no
\* yielded range holds lies in a recorded whitespace range.
SyntaxRangesPartition ==
    yielded.done =>
        /\ \A k \in 1 .. Len(yielded.ranges) - 1 :
              /\ yielded.ranges[k].start < yielded.ranges[k + 1].start
              /\ yielded.ranges[k].end <= yielded.ranges[k + 1].start
        /\ \A o \in 0 .. Len(text) - 1 :
              \/ \E k \in 1 .. Len(yielded.ranges) : inRange(o, yielded.ranges[k])
              \/ \E k \in 1 .. Len(whitespaceSyntaxRanges) :
                    inRange(o, whitespaceSyntaxRanges[k])

\* two different overlapping TS declarations were merged into one yielded range
\* that follows a skipped whitespace gap
SyntaxRangesPartitionWitness ==
    /\ yielded.done
    /\ Len(tsSyntaxRanges) = 2
    /\ tsSyntaxRanges[2].start < tsSyntaxRanges[1].end
    /\ tsSyntaxRanges[1] # tsSyntaxRanges[2]
    /\ \E k \in 1 .. Len(yielded.ranges) : yielded.ranges[k].type = typeScript
    /\ \E o \in 0 .. Len(text) - 1 :
          \A k \in 1 .. Len(yielded.ranges) : ~inRange(o, yielded.ranges[k])

-----------------------------------------------------------------------------
(* scan() over a marker comment *)

scanned == component = "scanner" /\ token = EndOfFileToken

isDoubleMarker(t) == CharAt(t, 3) = ":"

isSingleMarker(t) == CharAt(t, 3) = " "

\* the body X of the marker text t
bodyOf(t) == IF isDoubleMarker(t) THEN SubSeq(t, 6, Len(t) - 3) ELSE SubSeq(t, 5, Len(t) - 3)

\* the marker text t with its opener and its closing delimiter replaced by spaces,
\* the body left at its offsets
wrapperBlanked(t) ==
    [k \in 1 .. Len(t) |->
        IF k <= (IF isDoubleMarker(t) THEN 4 ELSE 3) \/ k >= Len(t) - 1 THEN " " ELSE t[k]]

kinds(ts) == [k \in 1 .. Len(ts) |-> ts[k].kind]

noTokenInWrapper ==
    \A k \in 1 .. Len(tokens) :
        /\ tokens[k].start >= (IF isDoubleMarker(text) THEN 4 ELSE 2)
        /\ tokens[k].start \notin {Len(text) - 2, Len(text) - 1}

SingleMarkerYieldsColon ==
    (scanned /\ isSingleMarker(text)) =>
        /\ Head(tokens) = [kind |-> "ColonToken", start |-> 2]
        /\ Tail(tokens) = scanAll(wrapperBlanked(text))
        /\ noTokenInWrapper
        /\ fullStartPos <= Len(text) - 2
        /\ tokenStart = Len(text)

\* a single-marker comment whose body is one identifier was scanned to the end
SingleMarkerYieldsColonWitness ==
    /\ scanned
    /\ isSingleMarker(text)
    /\ kinds(tokens) = <<"ColonToken", "Identifier", EndOfFileToken>>

\* C4: for every X, scanning `/*: X */` and scanning `/*:: : X */` yield the same
\* kinds, a ColonToken first.
SingleMarkerIsShorthand ==
    (scanned /\ isSingleMarker(text)) =>
        /\ kinds(tokens) = kinds(scanAll(doubleMarker(<<":", " ">> \o bodyOf(text))))
        /\ Head(tokens).kind = "ColonToken"

\* a single-marker comment whose body begins with "#!" was scanned to the end
SingleMarkerIsShorthandWitness ==
    /\ scanned
    /\ isSingleMarker(text)
    /\ isShebangTrivia(bodyOf(text))
    /\ Len(tokens) > 2

-----------------------------------------------------------------------------
(* Whole files: the comments of a text, and what the components make of them *)

\* the block comments of t from offset p on, each read as a unit: its opener, the
\* colons that follow it after optional spaces (3 for three or more), and the first
\* closing delimiter after them
RECURSIVE commentsFrom(_, _, _)
commentsFrom(t, p, acc) ==
    IF p >= Len(t) THEN acc
    ELSE IF CharAt(t, p) = "/" /\ CharAt(t, p + 1) = "*"
    THEN LET q == skipSpaces(t, p + 2, Len(t))
             colons == IF CharAt(t, q) = ":" THEN colonCountAt(t, q) ELSE 0
             c == findClose(t, q + colons, Len(t))
         IN  IF c < 0 THEN acc
             ELSE commentsFrom(t, c + 2, Append(acc, [open |-> p, colons |-> colons,
                                                      colonPos |-> q, close |-> c]))
    ELSE commentsFrom(t, p + 1, acc)

isMarker(c) == c.colons \in {1, 2}

markerComments(t) == SelectSeq(commentsFrom(t, 0, <<>>), isMarker)

\* an opener that is not a marker's, between the colons and the close of comment c
hasInnerOrdinaryOpener(t, c) ==
    \E o \in c.colonPos + c.colons .. c.close - 1 :
        /\ CharAt(t, o) = "/" /\ CharAt(t, o + 1) = "*"
        /\ LET q == skipSpaces(t, o + 2, Len(t)) IN
           ~(CharAt(t, q) = ":" /\ colonCountAt(t, q) \in {1, 2})

fileScanned == component = "cursor" /\ cursors[1].pos = Len(text)

spansReturned == fileScanned /\ ret.op = "getTSCommentPositions"

\* C5: a comment whose opener is followed, after optional spaces, by three or more
\* colons is not a marker comment: the cursor's map holds an openNonTsComment at its
\* opener, a close at its closing delimiter and nothing between them; scan() returns
\* no token that starts in it; skipTrivia called at its opener does not stop inside
\* it; getTSCommentPositions() returns no span that opens or has its colon in it.
TripleColonIsOrdinary ==
    \A k \in 1 .. Len(commentsFrom(text, 0, <<>>)) :
        LET c == commentsFrom(text, 0, <<>>)[k]
            m == getBlockCommentDelimiters(1)
        IN  c.colons = 3 =>
              /\ fileScanned =>
                    /\ DOMAIN m \cap (c.open .. c.close) = {c.open, c.close}
                    /\ m[c.open] = openNonTsComment
                    /\ m[c.close] = close
              /\ \A j \in 1 .. Len(tokens) : tokens[j].start \notin c.open .. c.close + 1
              /\ trivia.from = c.open => trivia.to \notin c.open + 1 .. c.close + 1
              /\ \A j \in 1 .. Len(ret.spans) :
                    /\ ret.spans[j].open \notin c.open .. c.close + 1
                    /\ ret.spans[j].colonPos \notin c.open .. c.close + 1

\* the spans of a scanned file that holds a marker comment and then a comment opened
\* with three colons were returned
TripleColonIsOrdinaryWitness ==
    /\ spansReturned
    /\ Len(ret.spans) = 1
    /\ \E k \in 1 .. Len(commentsFrom(text, 0, <<>>)) :
          /\ commentsFrom(text, 0, <<>>)[k].colons = 3
          /\ commentsFrom(text, 0, <<>>)[k].open > ret.spans[1].close

NumberAnnotationSpan ==
    (spansReturned /\ text = NumberAnnotation) =>
        ret.spans = <<[open |-> 0, colonPos |-> 2, colonCount |-> 1, close |-> 11,
                       containedInnerOpeningBlockComment |-> FALSE]>>

\* the span of `/*: number */` was returned after the text was scanned
NumberAnnotationSpanWitness ==
    /\ spansReturned
    /\ text = NumberAnnotation
    /\ Len(ret.spans) = 1
    /\ ret.spans[1].colonPos = 2

\* C7 as stated: the one span has open = 0, colonCount = 1, colonPos = 3, close = 12.
NumberAnnotationSpanAsStated ==
    (spansReturned /\ text = NumberAnnotation) =>
        /\ Len(ret.spans) = 1
        /\ ret.spans[1].open = 0
        /\ ret.spans[1].colonCount = 1
        /\ ret.spans[1].colonPos = 3
        /\ ret.spans[1].close = 12

\* C8 as amended: for `/** @x *//*:: y */`, after the whole text was scanned,
\* getTSCommentPositions() returns a single span, that of the marker comment: open
\* = 9, colonPos = 11, colonCount = 2, close = 16 (the final closing delimiter), and
\* containedInnerOpeningBlockComment false, the JSDoc comment being closed before it.
JSDocThenMarkerSpan ==
    (spansReturned /\ text = JSDocThenMarker) =>
        ret.spans = <<[open |-> 9, colonPos |-> 11, colonCount |-> 2, close |-> 16,
                       containedInnerOpeningBlockComment |-> FALSE]>>

\* the span of `/** @x *//*:: y */` was returned after the text was scanned
JSDocThenMarkerSpanWitness ==
    /\ spansReturned
    /\ text = JSDocThenMarker
    /\ Len(ret.spans) = 1
    /\ ~ret.spans[1].containedInnerOpeningBlockComment

\* C8 as stated: the single span has containedInnerOpeningBlockComment true and its
\* close at the final closing delimiter.
JSDocThenMarkerSpanAsStated ==
    (spansReturned /\ text = JSDocThenMarker) =>
        /\ Len(ret.spans) = 1
        /\ ret.spans[1].containedInnerOpeningBlockComment
        /\ ret.spans[1].close = Len(text) - 2

\* C9: the first closing delimiter after a marker's opener closes the marker comment
\* and any ordinary comment opened inside it: the span's close is that delimiter, its
\* flag is true exactly when an ordinary opener stands inside, a marker opener after
\* it gets a span of its own, and the cursor that scanned the file is not in a
\* comment.
InnerOpenerClosedTogether ==
    fileScanned =>
        /\ cursors[1].state = notInComment
        /\ spansReturned =>
              \A k \in 1 .. Len(markerComments(text)) :
                  /\ k <= Len(ret.spans)
                  /\ ret.spans[k].close = markerComments(text)[k].close
                  /\ ret.spans[k].containedInnerOpeningBlockComment
                        = hasInnerOrdinaryOpener(text, markerComments(text)[k])

\* a span with an inner opener, then the span of the marker comment opened after it
InnerOpenerClosedTogetherWitness ==
    /\ spansReturned
    /\ Len(ret.spans) = 2
    /\ ret.spans[1].containedInnerOpeningBlockComment
    /\ ~ret.spans[2].containedInnerOpeningBlockComment
    /\ cursors[1].state = notInComment

-----------------------------------------------------------------------------
(* A cursor and its clones: the delimiter map *)

\* C10: what a clone recorded while it advanced is in the map the original cursor
\* returns from getBlockCommentDelimiters(), and so in the spans it builds from that
\* map, whether or not the original was created with an explicit map.
CloneRecordsInOriginalMap ==
    \A i \in CursorIds :
        /\ DOMAIN getBlockCommentDelimiters(i) \subseteq DOMAIN getBlockCommentDelimiters(1)
        /\ \A o \in DOMAIN getBlockCommentDelimiters(i) :
              getBlockCommentDelimiters(1)[o] = getBlockCommentDelimiters(i)[o]

-----------------------------------------------------------------------------
(* Navigation with a bound at or behind the cursor *)

\* the cursor a step's call is made on, and the bound the call is given
calledCursor == cursors[ret'.cur]
calledBound == ret'.args[Len(ret'.args)]

navigated == ret'.op \in {"scanTo", "scanThroughLeafNode"}

noOp == cursors' = cursors /\ maps' = maps

\* what a step that is a scanTo or scanThroughLeafNode call has to satisfy
RescanStep ==
    navigated =>
        /\ calledBound < calledCursor.pos => noOp /\ ret'.ok /\ ~ret'.bool
        /\ (ret'.op = "scanTo" /\ calledBound = calledCursor.pos) \/ (ret'.again /\ ret.ok)
              => /\ noOp
                 /\ ret'.ok
                 /\ calledBound >= calledCursor.pos
                       => ret'.bool = (calledCursor.state = inTSBlockComment)

BoundBehindStep ==
    /\ ret'.op \in {"scanThroughLeafNode", "scanTo", "scanUntilNextSignificantChar"}
    /\ calledBound < calledCursor.pos
    => /\ ret'.ok
       /\ ~ret'.bool
       /\ cursors'[ret'.cur] = calledCursor
       /\ maps'[calledCursor.map] = maps[calledCursor.map]

\* C12: scanThroughLeafNode, scanTo and scanUntilNextSignificantChar given a bound
\* strictly behind the position return false without raising and leave the
\* position, the mode and the delimiter map as they were.
BoundBehindRefused == [][BoundBehindStep]_vars

BoundBehindRefusedWitness ==
    /\ ret.op = "scanUntilNextSignificantChar"
    /\ ret.args[1] < cursors[ret.cur].pos
    /\ ret.ok
    /\ ~ret.bool
    /\ cursors[ret.cur].state = inTSBlockComment

\* what every step has to satisfy
PositionStep ==
    /\ \A i \in CursorIds : cursors'[i].pos >= getCurrentPos(i)
    /\ navigated /\ ret'.ok /\ (ret'.bool \/ calledBound >= calledCursor.pos)
          => cursors'[ret'.cur].pos = calledBound

\* C13: whatever operation is called, getCurrentPos() of a cursor never decreases;
\* a scanTo(end) or scanThroughLeafNode(node) that is not refused and does not raise
\* leaves it equal to end, respectively node.end.
PositionNeverDecreases == [][PositionStep]_vars

PositionNeverDecreasesWitness ==
    /\ ret.op = "scanThroughLeafNode"
    /\ ret.ok
    /\ ret.bool
    /\ ~ret.again
    /\ 0 < ret.args[1]
    /\ ret.args[1] < ret.args[2]
    /\ getCurrentPos(ret.cur) = ret.args[2]

-----------------------------------------------------------------------------
(* commentScan as a function of the text and the bounds *)

\* C14: commentScan never raises: for every text, every start and end and both
\* values of stopOnSignificantText it returns an offset.
CommentScanNeverRaises == lastScan.called => ~lastScan.threw

-----------------------------------------------------------------------------
(* scan() at the end of the text inside a comment *)

endOfFileReached == component = "scanner" /\ token = EndOfFileToken

inUnterminatedMarker ==
    \E x \in Bodies : text \in {unterminatedDoubleMarker(x), unterminatedSingleMarker(x)}

\* C15: when scan() reaches the end of the text inside a single- or double-marker
\* comment that is never closed, the scanner has reported it, through the error
\* callback or the Unterminated flag, by the time it returns the end-of-file token.
UnterminatedMarkerReported ==
    endOfFileReached /\ inUnterminatedMarker
        => "Asterisk_Slash_expected" \in errors \/ "Unterminated" \in tokenFlags

-----------------------------------------------------------------------------
(* scanUntilAtChar and scanUntilPastChar *)

\* the offsets of t that lie in a line comment or in a block comment that is not a
\* marker comment, the text read from offset p on
RECURSIVE commentedFrom(_, _, _)
commentedFrom(t, p, acc) ==
    IF p >= Len(t) THEN acc
    ELSE IF CharAt(t, p) = "/" /\ CharAt(t, p + 1) = "/"
    THEN LET e == skipToLineBreak(t, p + 2, Len(t)) IN
         commentedFrom(t, e, acc \cup (p .. e - 1))
    ELSE IF CharAt(t, p) = "/" /\ CharAt(t, p + 1) = "*"
    THEN LET q == skipSpaces(t, p + 2, Len(t))
             colons == IF CharAt(t, q) = ":" THEN colonCountAt(t, q) ELSE 0
             c == findClose(t, q + colons, Len(t))
             e == IF c < 0 THEN Len(t) ELSE c + 2
         IN  IF colons \in {1, 2} THEN commentedFrom(t, q + colons, acc)
             ELSE commentedFrom(t, e, acc \cup (p .. e - 1))
    ELSE commentedFrom(t, p + 1, acc)

\* the first offset in p .. max - 1 that holds one of chars outside those comments;
\* max when there is none
firstTarget(t, p, max, chars) ==
    LET hits == {k \in p .. max - 1 : CharAt(t, k) \in chars /\ k \notin commentedFrom(t, 0, {})}
    IN  IF hits = {} THEN max ELSE CHOOSE k \in hits : \A h \in hits : k <= h

searched(op) == ret'.op = op /\ ret'.ok /\ calledCursor.pos <= calledBound

\* C16: scanUntilAtChar(chars, max) called at p <= max leaves the cursor at the first
\* character of chars at or after p that is not inside a line or block comment, or at
\* max when there is none; scanUntilPastChar leaves it one offset after that character.
ScanUntilSkipsComments ==
    [][/\ searched("scanUntilAtChar")
            => cursors'[ret'.cur].pos = firstTarget(text, calledCursor.pos, calledBound, AtChars)
       /\ searched("scanUntilPastChar")
            => cursors'[ret'.cur].pos =
                  Min(firstTarget(text, calledCursor.pos, calledBound, PastChars) + 1,
                      calledBound)]_vars

-----------------------------------------------------------------------------
(* createTSSyntaxTracker: the merge of the declared TypeScript ranges *)

yieldedTs == SelectSeq(yielded.ranges, LAMBDA r : r.type = typeScript)

contains(y, d) == y.start <= d.start /\ d.end <= y.end

\* C17: getSyntaxRanges() yields, for the declared TypeScript ranges that overlap or
\* touch, one typeScript range from the first start to the maximum end: two yielded
\* typeScript ranges neither overlap nor touch, every declared range lies in exactly
\* one of them, and each of them starts at the least start and ends at the greatest
\* end of the declared ranges it holds.
TsRangesMerged ==
    yielded.done =>
        /\ \A j \in 1 .. Len(yieldedTs) : \A k \in j + 1 .. Len(yieldedTs) :
              yieldedTs[j].end < yieldedTs[k].start
        /\ \A d \in 1 .. Len(tsSyntaxRanges) :
              Cardinality({k \in 1 .. Len(yieldedTs) :
                              contains(yieldedTs[k], tsSyntaxRanges[d])}) = 1
        /\ \A k \in 1 .. Len(yieldedTs) :
              /\ \E d \in 1 .. Len(tsSyntaxRanges) :
                    tsSyntaxRanges[d].start = yieldedTs[k].start
              /\ \E d \in 1 .. Len(tsSyntaxRanges) :
                    /\ contains(yieldedTs[k], tsSyntaxRanges[d])
                    /\ tsSyntaxRanges[d].end = yieldedTs[k].end

\* two declared ranges that touch without overlapping came out as one
TsRangesMergedWitness ==
    /\ yielded.done
    /\ Len(tsSyntaxRanges) = 2
    /\ tsSyntaxRanges[1].end = tsSyntaxRanges[2].start
    /\ Len(yieldedTs) = 1
    /\ yieldedTs[1].start = tsSyntaxRanges[1].start
    /\ yieldedTs[1].end = tsSyntaxRanges[2].end

-----------------------------------------------------------------------------
(* Whitespace, comments and significant text *)

\* the offsets of t, read from offset p on, that hold whitespace, the shebang line, a
\* line comment, a block comment that is not a marker comment, the opener and colons
\* of a marker comment, or a closing delimiter
RECURSIVE triviaFrom(_, _, _)
triviaFrom(t, p, acc) ==
    IF p >= Len(t) THEN acc
    ELSE IF p = 0 /\ isShebangTrivia(t)
    THEN triviaFrom(t, scanShebangTrivia(t, 0), acc \cup (0 .. scanShebangTrivia(t, 0) - 1))
    ELSE IF isLineBreak(CharAt(t, p)) \/ isWhiteSpaceSingleLine(CharAt(t, p))
    THEN triviaFrom(t, p + 1, acc \cup {p})
    ELSE IF CharAt(t, p) = "*" /\ CharAt(t, p + 1) = "/"
    THEN triviaFrom(t, p + 2, acc \cup {p, p + 1})
    ELSE IF CharAt(t, p) = "/" /\ CharAt(t, p + 1) = "/"
    THEN LET e == skipToLineBreak(t, p + 2, Len(t)) IN
         triviaFrom(t, e, acc \cup (p .. e - 1))
    ELSE IF CharAt(t, p) = "/" /\ CharAt(t, p + 1) = "*"
    THEN LET q == skipSpaces(t, p + 2, Len(t))
             colons == IF CharAt(t, q) = ":" THEN colonCountAt(t, q) ELSE 0
             c == findClose(t, q + colons, Len(t))
             e == IF colons \in {1, 2} THEN q + colons
                  ELSE IF c < 0 THEN Len(t) ELSE c + 2
         IN  triviaFrom(t, e, acc \cup (p .. e - 1))
    ELSE triviaFrom(t, p + 1, acc)

\* the first offset of [start, end) that holds none of those; end when there is none
firstSignificant(t, start, end) ==
    LET hits == (start .. end - 1) \ triviaFrom(t, start, {})
    IN  IF hits = {} THEN end ELSE CHOOSE k \in hits : \A h \in hits : k <= h

recordedWhitespace == Len(whitespaceSyntaxRanges') = Len(whitespaceSyntaxRanges) + 1
recordedTs == Len(tsSyntaxRanges') = Len(tsSyntaxRanges) + 1
lastWhitespace == whitespaceSyntaxRanges'[Len(whitespaceSyntaxRanges')]
lastTs == tsSyntaxRanges'[Len(tsSyntaxRanges')]

\* C18: skipWhitespaceThenMarkRangeAsTS(start, end) records a whitespace range
\* [start, realStart) only when it is not empty and a typeScript range [realStart, end)
\* only when it is not empty, realStart being the first offset of [start, end) whose
\* character is neither whitespace nor part of a comment.
RealStartIsFirstSignificant ==
    [][/\ recordedWhitespace =>
             /\ lastWhitespace.start < lastWhitespace.end
             /\ lastWhitespace.end =
                   firstSignificant(text, lastWhitespace.start, lastWhitespace.end)
             /\ recordedTs => lastTs.start = lastWhitespace.end
       /\ recordedTs =>
             /\ lastTs.start < lastTs.end
             /\ lastTs.start = firstSignificant(text, lastTs.start, lastTs.end)]_vars

-----------------------------------------------------------------------------
(* commentScan: where it stops *)

returned == lastScan.called /\ ~lastScan.threw /\ lastScan.start <= lastScan.end

\* C19: with stopOnSignificantText, commentScan returns the offset of the first
\* character of [start, end) that is neither whitespace nor part of a comment or of a
\* comment delimiter, or the bound when there is none: it goes past no such
\* character, a lone "/" or "*" included.
StopsAtSignificantText ==
    returned /\ lastScan.stopOnSignificantText
        => Min(lastScan.pos, lastScan.end)
              = firstSignificant(text, lastScan.start, lastScan.end)

\* C20: for start <= end, the offset commentScan returns lies in start .. end,
\* whatever stands across the bound.
ReturnsWithinBounds ==
    returned => lastScan.start <= lastScan.pos /\ lastScan.pos <= lastScan.end

-----------------------------------------------------------------------------
(* commentScan: the passes of its loop *)

\* C21: commentScan terminates: a pass of its loop at any offset either returns or
\* leaves pos strictly greater, and run pass by pass the call has returned after at
\* most text.length + 1 passes, with the offset and the delimiters of the call.
CommentScanMakesProgress ==
    lastScan.called =>
        /\ \A p \in 0 .. Len(text) + 2 :
              \/ commentScanPass(text, p, lastScan.end, lastScan.stopOnSignificantText).returns
              \/ commentScanPass(text, p, lastScan.end, lastScan.stopOnSignificantText).pos > p
        /\ commentScanPasses(text, lastScan.start, lastScan.end,
                             lastScan.stopOnSignificantText, <<>>, Len(text) + 1)
              = [running |-> FALSE, pos |-> lastScan.pos, events |-> lastScan.events,
                 threw |-> lastScan.threw]

\* a call from offset 0 of a text of full length that reported a delimiter and had not
\* returned one pass before the last character
CommentScanMakesProgressWitness ==
    /\ lastScan.called
    /\ Len(text) = MaxScanLen
    /\ lastScan.start = 0
    /\ lastScan.pos = Len(text)
    /\ lastScan.events # <<>>
    /\ commentScanPasses(text, 0, lastScan.end, lastScan.stopOnSignificantText,
                         <<>>, Len(text) - 1).running

-----------------------------------------------------------------------------
(* scan(): the enteringTSComment flag *)

\* a "/*" at offset o that opens a single- or double-marker comment
markerOpenerAt(o) ==
    /\ CharAt(text, o) = "/"
    /\ CharAt(text, o + 1) = "*"
    /\ CharAt(text, skipSpaces(text, o + 2, Len(text))) = ":"
    /\ colonCountAt(text, skipSpaces(text, o + 2, Len(text))) \in {1, 2}

\* a "*/" lies within text[from .. to)
closeWithin(from, to) ==
    \E k \in from .. to - 2 : CharAt(text, k) = "*" /\ CharAt(text, k + 1) = "/"

\* C22: the token scan() returned carries enteringTSComment only if a marker opener
\* lies in its leading trivia and no "*/" stands between that opener and the start of
\* the token.
EnteringFlagOnlyWhileOpen ==
    (tokens # <<>> /\ enteringTSComment \in tokenFlags) =>
        \E o \in fullStartPos .. tokenStart - 1 :
            markerOpenerAt(o) /\ ~closeWithin(o + 2, tokenStart)

-----------------------------------------------------------------------------
(* scanUntilNextSignificantChar: where the cursor stands afterwards *)

\* C23: scanUntilNextSignificantChar(max) with max >= pos leaves getCurrentPos() at
\* the first significant character at or after the old position, or at max when
\* there is none, and returns whether the cursor's mode there is inside a marker
\* comment.
AdvancesToNextSignificant ==
    [][searched("scanUntilNextSignificantChar") =>
          /\ cursors'[ret'.cur].pos = firstSignificant(text, calledCursor.pos, calledBound)
          /\ ret'.bool = (cursors'[ret'.cur].state = inTSBlockComment)]_vars

-----------------------------------------------------------------------------
(* scanTo: what a true result says about [pos, end) *)

\* the delimiters of the whole text, in order
fileDelimiters == commentScan(text, 0, Len(text), FALSE).events

\* the mode at offset k of a cursor that stood at offset p in mode state: the mode
\* left by the delimiters of the text within [p, k)
modeAt(state, p, k) ==
    LET within(e) == p <= e.at /\ e.at < k IN
    applyEvents([state |-> state, map |-> EmptyMap], SelectSeq(fileDelimiters, within)).state

\* an opener or a closing delimiter of the text starts within [from, to)
delimiterWithin(from, to) ==
    \E j \in 1 .. Len(fileDelimiters) :
        /\ fileDelimiters[j].type \in {openTsCommentWithoutColons, openNonTsComment, close}
        /\ from <= fileDelimiters[j].at
        /\ fileDelimiters[j].at < to

\* the first significant offset of the file within [start, end); end when there is none
firstSignificantOfFile(start, end) ==
    LET hits == (start .. end - 1) \ triviaFrom(text, 0, {})
    IN  IF hits = {} THEN end ELSE CHOOSE k \in hits : \A h \in hits : k <= h

scannedTo == ret'.op = "scanTo" /\ ret'.ok /\ calledCursor.pos <= calledBound

\* C24: scanTo(end) with end >= pos returns true only if the mode at the first
\* significant character of [pos, end) is inside a marker comment and no opener and
\* no closing delimiter occurs between that character and end.
ScanToTrueOnlyInsideMarker ==
    [][(scannedTo /\ ret'.bool) =>
          /\ modeAt(calledCursor.state, calledCursor.pos,
                    firstSignificantOfFile(calledCursor.pos, calledBound)) = inTSBlockComment
          /\ ~delimiterWithin(firstSignificantOfFile(calledCursor.pos, calledBound),
                              calledBound)]_vars

-----------------------------------------------------------------------------
(* The delimiter map over time *)

\* C25: the delimiter map only grows and keeps one kind per offset: an entry once
\* recorded is never removed, and no later operation on the cursor or on a clone
\* records another kind at its offset.
DelimitersKept ==
    [][\A m \in 1 .. Len(maps) :
          \A o \in DOMAIN maps[m] :
              o \in DOMAIN maps'[m] /\ maps'[m][o] = maps[m][o]]_vars

-----------------------------------------------------------------------------
(* The closing delimiter that follows an opener *)

isOpener(e) == e.type \in {openTsCommentWithoutColons, openNonTsComment}

\* the offset behind the opener e and the colons of a marker opener
openerEnd(e) ==
    IF e.type = openTsCommentWithoutColons
    THEN skipSpaces(text, e.at + 2, Len(text))
             + colonCountAt(text, skipSpaces(text, e.at + 2, Len(text)))
    ELSE e.at + 2

wholeFileScanned ==
    lastScan.called /\ lastScan.start = 0 /\ lastScan.end = Len(text) /\ ~lastScan.threw

\* C26: in a scan of the whole text, for every opener reported the next closing
\* delimiter reported is the first "*/" of the text behind the opener and its colons,
\* also when that "*/" stands behind a "//", and the mode after it is notInComment.
FirstCloseEndsOpener ==
    wholeFileScanned =>
        \A j \in 1 .. Len(lastScan.events) :
            (isOpener(lastScan.events[j])
                 /\ findClose(text, openerEnd(lastScan.events[j]), Len(text)) >= 0) =>
                \E k \in j + 1 .. Len(lastScan.events) :
                    /\ lastScan.events[k].type = close
                    /\ lastScan.events[k].at
                          = findClose(text, openerEnd(lastScan.events[j]), Len(text))
                    /\ \A i \in j + 1 .. k - 1 : lastScan.events[i].type # close
                    /\ applyEvents([state |-> notInComment, map |-> EmptyMap],
                                   SubSeq(lastScan.events, 1, k)).state = notInComment

-----------------------------------------------------------------------------
(* scanThroughLeafNode: the gap, the node and the result *)

scannedThroughNode ==
    ret'.op = "scanThroughLeafNode" /\ ret'.ok /\ calledCursor.pos <= calledBound

-----------------------------------------------------------------------------
(* skipTrivia against scan() *)

skippedFrom(p) ==
    /\ trivia.from = p
    /\ ~trivia.stopAfterLineBreak
    /\ ~trivia.stopAtComments
    /\ ~trivia.inJSDoc

\* the offset of the colons of the marker opener at o
colonsOf(o) == skipSpaces(text, o + 2, Len(text))

\* C28: skipTrivia(text, p) returns the start of the token scan() produces when
\* started at p; called on a single-marker opener it returns the offset of the colon,
\* called on a double-marker opener an offset behind the two colons that holds no
\* whitespace.
SkipTriviaFindsTokenStart ==
    \A p \in Offsets :
        skippedFrom(p) =>
            /\ trivia.to = scanToken(text, p, {}).tokenStart
            /\ (markerOpenerAt(p) /\ colonCountAt(text, colonsOf(p)) = 1)
                  => trivia.to = colonsOf(p)
            /\ (markerOpenerAt(p) /\ colonCountAt(text, colonsOf(p)) = 2)
                  => /\ trivia.to >= colonsOf(p) + 2
                     /\ ~isWhiteSpaceSingleLine(CharAt(text, trivia.to))
                     /\ ~isLineBreak(CharAt(text, trivia.to))

\* a call at the double-marker opener that went on through whitespace to the colon
\* of a single-marker opener behind it
SkipTriviaFindsTokenStartWitness ==
    /\ skippedFrom(0)
    /\ CharAt(text, 4) = " "
    /\ markerOpenerAt(5)
    /\ colonCountAt(text, colonsOf(5)) = 1
    /\ trivia.to = colonsOf(5)
    /\ trivia.to > 7

-----------------------------------------------------------------------------
(* couldStartTrivia against skipTrivia *)

\* C29: whenever skipTrivia(text, p) returns an offset greater than p,
\* couldStartTrivia(text, p) is true, also when p holds the closing "*/" of a marker
\* comment.
CouldStartTriviaInSync ==
    \A p \in Offsets : (skippedFrom(p) /\ trivia.to > p) => trivia.couldStart

-----------------------------------------------------------------------------
(* getTSCommentPositions: the colons of a span *)

\* C30: every span getTSCommentPositions() returns describes one opener: colonPos is
\* the offset of the colons that directly follow the span's own open, with only
\* spaces in between, and colonCount is their number, whatever marker opener follows
\* before the span's close.
SpanDescribesOwnOpener ==
    ret.op = "getTSCommentPositions" =>
        \A k \in 1 .. Len(ret.spans) :
            /\ ret.spans[k].colonPos = colonsOf(ret.spans[k].open)
            /\ CharAt(text, ret.spans[k].colonPos) = ":"
            /\ ret.spans[k].colonCount = colonCountAt(text, ret.spans[k].colonPos)

====
